---- MODULE Spec2Model ----
(***************************************************************************)
(* The LightBulb session of yeelight_controller/device.py as a state       *)
(* machine: the DeviceState fields, the class-level message id counter,    *)
(* the TCP socket, and the blocking send / receive loop of                 *)
(* __send_message, one action per socket call outcome.                     *)
(***************************************************************************)
EXTENDS Integers, Sequences, FiniteSets, TLC

\* Largest value current_message_id may reach in the model.
MaxId == 3
\* Largest number of non-empty segments one recvfrom delivers.
MaxBatch == 2
\* Largest number of frames in a byte stream that is followed read by read.
MaxStream == 3
\* Largest value of current_message_id at which a command starts while the
\* reads are observed (SpecRead).
MaxReadId == 1

\* Python None in the string-valued field power and in the int-valued fields.
None == "None"
NoInt == -1

VARIABLES
    power, brightness, color_mode, color_temperature, rgb, hue, saturation,
    on_notify, on_error,      \* is a callback registered
    current_message_id,       \* LightBulb.current_message_id
    sock,                     \* self.__sock: "none", "unconnected", "connected"
    pc,                       \* "new", "idle", "recv" (blocked in recvfrom), "gone"
    call,                     \* the public call in progress or last finished
    msg,                      \* the msg of the innermost __send_message
    depth,                    \* connect() calls nested in except socket.error
    sentIds,                  \* ids of the frames written to the socket, in order
    pre,                      \* DeviceState when the call started
    notifSeen,                \* a Notification frame was processed during the call
    okSeen,                   \* the loop parsed Result(call's id, ["ok"])
    answer,                   \* result list of the Result frame with its id that the
                              \* loop parsed for the last get_prop, or <<>>
    applied,                  \* the command applied its optimistic update
    saved,                    \* props __get_props stored during the call, or <<>>
    ending,                   \* how the call's own __send_message ended
    ret,                      \* what the caller saw: "None" or "raise"
    lastRead,                 \* the segments of the read just made, when observed
    before,                   \* DeviceState before that read
    nDone,                    \* segments of lastRead the loop got through
    nNotifyCalls, nErrorCalls, \* on_notify / on_error calls made for lastRead
    stream,                   \* the bytes the device sends, when they are followed
    wire,                     \* the part of stream no recvfrom has returned yet
    got,                      \* the frames the loop has processed from stream
    nConnects,                \* connect() calls made during the call, when counted
    prev,                     \* the call before this one and its ending, when recorded
    idle,                     \* seconds the present recvfrom has been blocked
    eof,                      \* the read just made returned b'' (peer closed)
    dpc,                      \* discover(): "off", "start", "wait", "init", "done"
    elapsed,                  \* time.time() - started_searching
    probes, waits,            \* sendto / recvfrom calls discover() has made
    reply,                    \* the datagram discover() received, or <<>>
    dret,                     \* what discover() gave: "none", "None", "device", an exception
    udp,                      \* discover()'s UDP socket: "none", "open", "closed"
    pc2, call2, msg2, ret2,   \* a second caller thread: the same as pc, call, msg, ret
    taken,                    \* a thread read a response frame the other one awaits
    nOpen,                    \* TCP sockets the session created that are still open
    old                       \* the sessions of revision __init__.py, by creation order

vars == <<power, brightness, color_mode, color_temperature, rgb, hue, saturation,
          on_notify, on_error, current_message_id, sock, pc, call, msg, depth,
          sentIds, pre, notifSeen, okSeen, answer, applied, saved, ending, ret,
          lastRead, before, nDone, nNotifyCalls, nErrorCalls, stream, wire, got,
          nConnects, prev, idle, eof, dpc, elapsed, probes, waits, reply, dret, udp,
          pc2, call2, msg2, ret2, taken, nOpen, old>>

stateVars == <<power, brightness, color_mode, color_temperature, rgb, hue, saturation>>
readVars == <<lastRead, before, nDone, nNotifyCalls, nErrorCalls>>
byteVars == <<stream, wire, got>>
histVars == <<nConnects, prev>>
timeVars == <<idle, eof>>
discVars == <<dpc, elapsed, probes, waits, reply, dret, udp>>
threadVars == <<pc2, call2, msg2, ret2, taken>>
sockVars == <<nOpen>>
oldVars == <<old>>
sideVars == <<histVars, timeVars, discVars, threadVars, sockVars, oldVars>>

----------------------------------------------------------------------------
\* Values

\* int(value) on the decimal strings the device sends.
ToInt(s) ==
    CASE s = "0" -> 0
      [] s = "1" -> 1
      [] s = "2" -> 2
      [] s = "42" -> 42
      [] s = "100" -> 100
      [] s = "255" -> 255
      [] s = "359" -> 359
      [] s = "1700" -> 1700
      [] s = "4000" -> 4000
      [] s = "16711680" -> 16711680

\* The fields as __init__ leaves them.
InitialState ==
    [power |-> None, brightness |-> NoInt, color_mode |-> NoInt,
     color_temperature |-> NoInt, rgb |-> NoInt, hue |-> NoInt,
     saturation |-> NoInt]

\* The DeviceState fields as one record.
DeviceState ==
    [power |-> power, brightness |-> brightness, color_mode |-> color_mode,
     color_temperature |-> color_temperature, rgb |-> rgb, hue |-> hue,
     saturation |-> saturation]

\* self.__effect and self.__duration with the constructor's defaults.
Effect == "smooth"
Duration == 500

----------------------------------------------------------------------------
\* Frames: the JSON objects of one read, already split on '\r\n'. "malformed" is
\* a non-empty segment json.loads rejects.

Result(i, p) == [kind |-> "result", id |-> i, payload |-> p, params |-> <<>>]
Error(i) == [kind |-> "error", id |-> i, payload |-> <<>>, params |-> <<>>]
Notification(ps) == [kind |-> "notify", id |-> 0, payload |-> <<>>, params |-> ps]
Malformed == [kind |-> "malformed", id |-> 0, payload |-> <<>>, params |-> <<>>]
\* result_message = None
NoResult == [kind |-> "none", id |-> 0, payload |-> <<>>, params |-> <<>>]

\* get_prop answers: power, bright, ct, color_mode, rgb, hue, sat.
PropsPayloads ==
    { <<"on", "100", "4000", "2", "16711680", "359", "1">> }

\* params of the Notification frames the session receives (name, value pairs in
\* the order of the JSON object).
NotifyParams ==
    { << <<"power", "off">>, <<"bright", "42">> >> }

\* params of the Notification frames whose effect is observed one frame at a
\* time: each tracked wire name, names the protocol does not have, two names.
AllNotifyParams ==
    { << <<"power", "on">> >>, << <<"power", "off">> >>, << <<"bright", "42">> >>,
      << <<"ct", "1700">> >>, << <<"color_mode", "1">> >>, << <<"rgb", "255">> >>,
      << <<"hue", "0">> >>, << <<"sat", "100">> >>,
      << <<"rbg", "255">> >>, << <<"flowing", "0">> >> }
    \cup NotifyParams

\* What the device may put into a read while the session waits for msg m.
Frames(m) ==
    { Result(m.id, p) : p \in (IF m.method = "get_prop" THEN PropsPayloads
                                                         ELSE {<<"ok">>, <<"busy">>}) }
    \cup { Result(m.id - 1, <<"ok">>), Error(m.id), Error(m.id - 1), Malformed }
    \cup { Notification(ps) : ps \in NotifyParams }

\* The frames of messages that answer the request with this id.
Answers(messages, id) ==
    {i \in DOMAIN messages : messages[i].kind \in {"result", "error"} /\ messages[i].id = id}

\* The reads: the device answers a request at most once.
Batches(m) ==
    { messages \in UNION { [1..n -> Frames(m)] : n \in 1..MaxBatch } :
        Cardinality(Answers(messages, m.id)) <= 1 }

----------------------------------------------------------------------------
\* The bytes of the connection. The text json.dumps gives for a frame is cut
\* into two parts, so that a read can end inside a frame; '\r' and '\n' are
\* bytes of their own.

CR == [ch |-> "\\r", of |-> NoResult, part |-> 0]
LF == [ch |-> "\\n", of |-> NoResult, part |-> 0]
Text(f, n) == [ch |-> "json", of |-> f, part |-> n]

\* What the device writes for frame f: the JSON text and '\r\n'.
Encode(f) == <<Text(f, 1), Text(f, 2), CR, LF>>

RECURSIVE EncodeAll(_)
EncodeAll(fs) == IF fs = <<>> THEN <<>> ELSE Encode(Head(fs)) \o EncodeAll(Tail(fs))

\* data.decode().split('\r\n'): the pieces between the '\r\n' of one read, the
\* empty ones included.
RECURSIVE Split(_)
Split(data) ==
    LET at == {i \in 1..(Len(data) - 1) : data[i] = CR /\ data[i + 1] = LF}
    IN  IF at = {} THEN <<data>>
        ELSE LET i == CHOOSE k \in at : \A l \in at : k <= l
             IN  <<SubSeq(data, 1, i - 1)>> \o Split(SubSeq(data, i + 2, Len(data)))

\* 'if message:' keeps the non-empty pieces.
RECURSIVE NonEmpty(_)
NonEmpty(pieces) ==
    IF pieces = <<>> THEN <<>>
    ELSE (IF Head(pieces) = <<>> THEN <<>> ELSE <<Head(pieces)>>) \o NonEmpty(Tail(pieces))

\* json.loads skips the whitespace around a document; '\r' and '\n' are whitespace.
RECURSIVE StripLeft(_)
StripLeft(t) == IF t # <<>> /\ Head(t) \in {CR, LF} THEN StripLeft(Tail(t)) ELSE t

RECURSIVE StripRight(_)
StripRight(t) ==
    IF t # <<>> /\ t[Len(t)] \in {CR, LF} THEN StripRight(SubSeq(t, 1, Len(t) - 1)) ELSE t

\* json.loads(message): the frame whose whole text the piece is; any other
\* piece raises (Malformed).
Loads(piece) ==
    LET t == StripRight(StripLeft(piece))
    IN  IF Len(t) = 2 /\ t[1].ch = "json" /\ t[1].part = 1
                      /\ t[2].ch = "json" /\ t[2].part = 2 /\ t[1].of = t[2].of
        THEN t[1].of
        ELSE Malformed

\* The segments the for loop of one read goes through.
Segments(data) ==
    LET pieces == NonEmpty(Split(data))
    IN  [i \in 1..Len(pieces) |-> Loads(pieces[i])]

\* The byte streams followed: Notification frames, so that the wait goes on.
StreamFrames ==
    { Notification(ps) : ps \in NotifyParams \cup { << <<"bright", "42">> >> } }

Streams ==
    { EncodeAll(fs) : fs \in UNION { [1..n -> StreamFrames] : n \in 1..MaxStream } }

----------------------------------------------------------------------------
\* __process_notification_message

\* One iteration of the loop over params.items().
SetProp(st, prop, value) ==
    IF prop = "power" THEN [st EXCEPT !.power = value]
    ELSE IF prop = "bright" THEN [st EXCEPT !.brightness = ToInt(value)]
    ELSE IF prop = "color_mode" THEN [st EXCEPT !.color_mode = ToInt(value)]
    ELSE IF prop = "ct" THEN [st EXCEPT !.color_temperature = ToInt(value)]
    ELSE IF prop = "rbg" THEN [st EXCEPT !.rgb = ToInt(value)]
    ELSE IF prop = "hue" THEN [st EXCEPT !.hue = ToInt(value)]
    ELSE IF prop = "sat" THEN [st EXCEPT !.saturation = ToInt(value)]
    ELSE st

RECURSIVE ProcessNotification(_, _)
ProcessNotification(st, params) ==
    IF params = <<>> THEN st
    ELSE ProcessNotification(SetProp(st, Head(params)[1], Head(params)[2]),
                             Tail(params))

\* __get_props after a truthy result: props[0..6] into the fields.
SaveProps(st, props) ==
    [power |-> props[1], brightness |-> ToInt(props[2]),
     color_temperature |-> ToInt(props[3]), color_mode |-> ToInt(props[4]),
     rgb |-> ToInt(props[5]), hue |-> ToInt(props[6]),
     saturation |-> ToInt(props[7])]

----------------------------------------------------------------------------
\* The command methods

\* The public calls made on a session and their arguments.
Commands ==
    { [op |-> "turn_on", args |-> <<>>], [op |-> "turn_off", args |-> <<>>],
      [op |-> "toggle", args |-> <<>>],
      [op |-> "set_brightness", args |-> <<50>>],
      [op |-> "set_temperature", args |-> <<6500>>],
      [op |-> "set_rgb", args |-> <<255, 0, 0>>],
      [op |-> "set_hsv", args |-> <<120, 80>>] }

InitCall == [op |-> "init", args |-> <<>>]

\* color = red * 65536 + green * 256 + blue
PackRgb(a) == a[1] * 65536 + a[2] * 256 + a[3]

\* method name and params each method hands to __create_message.
MethodOf(c) ==
    CASE c.op = "turn_on" -> "set_power"
      [] c.op = "turn_off" -> "set_power"
      [] c.op = "toggle" -> "toggle"
      [] c.op = "set_brightness" -> "set_bright"
      [] c.op = "set_temperature" -> "set_ct_abx"
      [] c.op = "set_rgb" -> "set_rgb"
      [] c.op = "set_hsv" -> "set_hsv"
      [] c.op = "init" -> "get_prop"

ParamsOf(c) ==
    CASE c.op = "turn_on" -> <<"on", Effect, Duration>>
      [] c.op = "turn_off" -> <<"off", Effect, Duration>>
      [] c.op = "toggle" -> <<>>
      [] c.op = "set_brightness" -> <<c.args[1], Effect, Duration>>
      [] c.op = "set_temperature" -> <<c.args[1], Effect, Duration>>
      [] c.op = "set_rgb" -> <<PackRgb(c.args), Effect, Duration>>
      [] c.op = "set_hsv" -> <<c.args[1], c.args[2], Effect, Duration>>
      [] c.op = "init" -> <<"power", "bright", "ct", "color_mode", "rgb", "hue", "sat">>

\* Mutant: the counter is not incremented.
NextMessageId_Stuck(cur) == cur

\* LightBulb.current_message_id += 1; the id of the new msg.
NextMessageId(cur) == cur + 1

CreateMessage(method, params) ==
    [id |-> NextMessageId(current_message_id), method |-> method, params |-> params]

\* The assignment each command makes under "if result and result['result'][0] == 'ok'".
Optimistic(c, st) ==
    CASE c.op = "turn_on" -> [st EXCEPT !.power = "on"]
      [] c.op = "turn_off" -> [st EXCEPT !.power = "off"]
      [] c.op = "toggle" -> [st EXCEPT !.power = IF st.power = "on" THEN "off" ELSE "on"]
      [] c.op = "set_brightness" -> [st EXCEPT !.brightness = c.args[1]]
      [] c.op = "set_temperature" -> [st EXCEPT !.color_temperature = c.args[1]]
      [] c.op = "set_rgb" -> [st EXCEPT !.rgb = PackRgb(c.args)]
      [] c.op = "set_hsv" -> [st EXCEPT !.hue = c.args[1], !.saturation = c.args[2]]

\* Mutant: the update is made whatever __send_message returned.
ResultOk_Unchecked(result) == TRUE

\* The test guarding the optimistic update.
ResultOk(result) == result # NoResult /\ result.payload[1] = "ok"

----------------------------------------------------------------------------
\* __send_message: the for loop over the segments of one read

\* The loop's locals before the first segment of a read. exit is "run" while the
\* loop goes on, "error" after the return in the 'error' branch, "ValueError"
\* after json.loads raised.
LoopStart(st) ==
    [st |-> st, result |-> NoResult, exit |-> "run", done |-> 0,
     notifyCalls |-> 0, errorCalls |-> 0, notif |-> FALSE, ok |-> FALSE]

\* One iteration: json.loads, then the 'error' / 'method' / 'result' branches.
Segment(acc, m, id) ==
    IF m.kind = "malformed" THEN [acc EXCEPT !.exit = "ValueError"]
    ELSE IF m.kind = "error" THEN
        [acc EXCEPT !.exit = "error", !.done = @ + 1,
                    !.errorCalls = @ + (IF on_error THEN 1 ELSE 0)]
    ELSE IF m.kind = "notify" THEN
        [acc EXCEPT !.st = ProcessNotification(@, m.params), !.done = @ + 1,
                    !.notifyCalls = @ + (IF on_notify THEN 1 ELSE 0),
                    !.notif = TRUE]
    ELSE IF m.kind = "result" THEN
        [acc EXCEPT !.result = IF m.id = id THEN m ELSE @, !.done = @ + 1,
                    !.ok = @ \/ (m.id = id /\ m.payload[1] = "ok")]
    ELSE [acc EXCEPT !.done = @ + 1]

RECURSIVE ForMessages(_, _, _)
ForMessages(acc, messages, id) ==
    IF messages = <<>> \/ acc.exit # "run" THEN acc
    ELSE ForMessages(Segment(acc, Head(messages), id), Tail(messages), id)

CountKind(messages, k) == Cardinality({i \in DOMAIN messages : messages[i].kind = k})

----------------------------------------------------------------------------
\* Action fragments

SetState(st) ==
    /\ power' = st.power
    /\ brightness' = st.brightness
    /\ color_mode' = st.color_mode
    /\ color_temperature' = st.color_temperature
    /\ rgb' = st.rgb
    /\ hue' = st.hue
    /\ saturation' = st.saturation

\* No read was made by this step.
NoRead ==
    /\ lastRead' = <<>>
    /\ before' = InitialState
    /\ nDone' = 0
    /\ nNotifyCalls' = 0
    /\ nErrorCalls' = 0

\* The innermost __send_message returns result (NoResult for None) with the
\* fields at st, and every frame above it returns: __get_props stores a truthy
\* result, connect() returns, an enclosing 'except socket.error' handler returns
\* None, and a command applies its update to a truthy "ok" result.
Returns(st, result) ==
    /\ IF msg.method = "get_prop"
       THEN /\ SetState(IF result # NoResult THEN SaveProps(st, result.payload) ELSE st)
            /\ saved' = IF result # NoResult THEN result.payload ELSE saved
            /\ applied' = FALSE
       ELSE /\ SetState(IF ResultOk(result) THEN Optimistic(call, st) ELSE st)
            /\ saved' = saved
            /\ applied' = ResultOk(result)
    /\ pc' = "idle"
    /\ ret' = "None"
    /\ depth' = 0

\* An exception no handler catches leaves the call c; one leaving __init__
\* leaves no session behind.
Raises(st, c) ==
    /\ SetState(st)
    /\ pc' = IF c.op = "init" THEN "gone" ELSE "idle"
    /\ ret' = "raise"
    /\ depth' = 0

\* self.__sock.send(...): the frame is written and the caller blocks in
\* recvfrom at nesting d, or the write raises a socket error, which no handler
\* of __send_message covers.
Send(st, m, sent, c, d) ==
    \/ /\ sent
       /\ sentIds' = Append(sentIds, m.id)
       /\ SetState(st)
       /\ pc' = "recv"
       /\ ret' = "none"
       /\ depth' = d
    \/ /\ ~sent
       /\ sentIds' = sentIds
       /\ Raises(st, c)

\* connect() made by call c: a new socket, sock.connect, then __get_props up
\* to its send. result is "ok", "timeout" (caught and logged) or "error" (any
\* other socket error, not caught).
connect(result, sent, c, d) ==
    \/ /\ result = "ok"
       /\ current_message_id < MaxId
       /\ sock' = "connected"
       /\ current_message_id' = NextMessageId(current_message_id)
       /\ msg' = CreateMessage("get_prop", ParamsOf(InitCall))
       /\ Send(DeviceState, msg', sent, c, d)
    \/ /\ result = "timeout"
       /\ sent
       /\ sock' = "unconnected"
       /\ SetState(DeviceState)
       /\ pc' = "idle"
       /\ ret' = "None"
       /\ depth' = 0
       /\ UNCHANGED <<current_message_id, sentIds, msg>>
    \/ /\ result = "error"
       /\ sent
       /\ sock' = "unconnected"
       /\ Raises(DeviceState, c)
       /\ UNCHANGED <<current_message_id, sentIds, msg>>

----------------------------------------------------------------------------
\* The state after the field assignments of __init__, before its self.connect().
NewSession ==
    /\ power = None
    /\ brightness = NoInt
    /\ color_mode = NoInt
    /\ color_temperature = NoInt
    /\ rgb = NoInt
    /\ hue = NoInt
    /\ saturation = NoInt
    /\ on_notify = FALSE
    /\ on_error = FALSE
    /\ current_message_id = 0
    /\ sock = "none"
    /\ pc = "new"
    /\ call = InitCall
    /\ msg = [id |-> 0, method |-> "none", params |-> <<>>]
    /\ depth = 0
    /\ sentIds = <<>>
    /\ pre = InitialState
    /\ notifSeen = FALSE
    /\ okSeen = FALSE
    /\ answer = <<>>
    /\ applied = FALSE
    /\ saved = <<>>
    /\ ending = "none"
    /\ ret = "none"
    /\ lastRead = <<>>
    /\ before = InitialState
    /\ nDone = 0
    /\ nNotifyCalls = 0
    /\ nErrorCalls = 0

\* No msg made yet.
NoMsg == [id |-> 0, method |-> "none", params |-> <<>>]

\* Nothing counted or timed, no discover() running, one caller thread.
NoPrev == [op |-> "none", ending |-> "none"]
NoHist == nConnects = 0 /\ prev = NoPrev
NoClock == idle = 0 /\ eof = FALSE
NoDiscover ==
    /\ dpc = "off" /\ elapsed = 0 /\ probes = 0 /\ waits = 0
    /\ reply = <<>> /\ dret = "none" /\ udp = "none"
NoThread ==
    /\ pc2 = "off" /\ call2 = InitCall /\ msg2 = NoMsg /\ ret2 = "none"
    /\ taken = FALSE
NoSocket == nOpen = 0
NoOld == old = <<>>

Init ==
    /\ NewSession
    /\ stream = <<>>
    /\ wire = <<>>
    /\ got = <<>>
    /\ NoHist /\ NoClock /\ NoDiscover /\ NoThread /\ NoSocket /\ NoOld

\* A call starts: what the observations of the call are reset to.
StartCall(c) ==
    /\ call' = c
    /\ pre' = DeviceState
    /\ notifSeen' = FALSE
    /\ okSeen' = FALSE
    /\ answer' = <<>>
    /\ applied' = FALSE
    /\ saved' = <<>>

\* self.connect() at the end of __init__.
ConstructBody ==
    /\ pc = "new"
    /\ \E result \in {"ok", "timeout", "error"}, sent \in BOOLEAN :
          /\ connect(result, sent, InitCall, 0)
          /\ ending' = IF result = "ok" THEN (IF sent THEN "none" ELSE "senderror")
                       ELSE IF result = "timeout" THEN "connect_timeout"
                       ELSE "connect_error"
    /\ StartCall(InitCall)
    /\ NoRead
    /\ UNCHANGED <<on_notify, on_error, byteVars>>

Construct ==
    /\ ConstructBody
    /\ UNCHANGED sideVars

\* A command method up to its blocking recvfrom: __create_message, then send.
\* A socket that never connected refuses the write.
CommandBody(c) ==
    /\ current_message_id' = NextMessageId(current_message_id)
    /\ msg' = CreateMessage(MethodOf(c), ParamsOf(c))
    /\ \E sent \in BOOLEAN :
          /\ sent => sock = "connected"
          /\ Send(DeviceState, msg', sent, c, 0)
          /\ ending' = IF sent THEN "none" ELSE "senderror"
    /\ StartCall(c)
    /\ NoRead
    /\ UNCHANGED <<on_notify, on_error, sock, byteVars>>

Command(c) ==
    /\ pc = "idle"
    /\ current_message_id < MaxId
    /\ CommandBody(c)
    /\ UNCHANGED sideVars

\* The same with the reads observed.
ObservedCommand(c) ==
    /\ pc = "idle"
    /\ current_message_id <= MaxReadId
    /\ CommandBody(c)
    /\ UNCHANGED sideVars

\* recvfrom returns data: the for loop over its segments, then the return, the
\* raise, or the next turn of the while loop.
RecvBody(messages) ==
    /\ pc = "recv"
    /\ LET r == ForMessages(LoopStart(DeviceState), messages, msg.id)
           own == depth = 0
       IN  /\ notifSeen' = (notifSeen \/ r.notif)
           /\ okSeen' = (okSeen \/ (own /\ call.op # "init" /\ r.ok))
           /\ answer' = IF msg.method = "get_prop" /\ r.result # NoResult
                        THEN r.result.payload ELSE answer
           /\ CASE r.exit = "ValueError" ->
                     /\ Raises(r.st, call)
                     /\ ending' = IF own THEN "ValueError" ELSE ending
                     /\ UNCHANGED <<saved, applied>>
                [] r.exit = "error" ->
                     /\ Returns(r.st, NoResult)
                     /\ ending' = IF own
                                  THEN (IF messages[r.done].id = msg.id
                                        THEN "error" ELSE "error_other_id")
                                  ELSE ending
                [] r.exit = "run" /\ r.result # NoResult ->
                     /\ Returns(r.st, r.result)
                     /\ ending' = IF own THEN "result" ELSE ending
                [] OTHER ->
                     /\ SetState(r.st)
                     /\ UNCHANGED <<pc, ret, depth, saved, applied, ending>>
    /\ UNCHANGED <<on_notify, on_error, current_message_id, sock, call, msg,
                   sentIds, pre>>

Recv(messages) ==
    /\ RecvBody(messages)
    /\ NoRead
    /\ UNCHANGED <<byteVars, sideVars>>

\* The same with the read observed: its segments, how many of them the loop
\* got through, how often it called each observer.
ObserveRead(messages) ==
    /\ RecvBody(messages)
    /\ LET r == ForMessages(LoopStart(DeviceState), messages, msg.id)
       IN  /\ lastRead' = messages
           /\ before' = DeviceState
           /\ nDone' = r.done
           /\ nNotifyCalls' = r.notifyCalls
           /\ nErrorCalls' = r.errorCalls

ObservedRecv(messages) ==
    /\ ObserveRead(messages)
    /\ UNCHANGED <<byteVars, sideVars>>

\* recvfrom raises socket.timeout: __send_message returns None.
RecvTimeoutBody ==
    /\ pc = "recv"
    /\ Returns(DeviceState, NoResult)
    /\ ending' = IF depth = 0 THEN "timeout" ELSE ending
    /\ UNCHANGED <<notifSeen, okSeen, answer, byteVars>>
    /\ NoRead
    /\ UNCHANGED <<on_notify, on_error, current_message_id, sock, call, msg,
                   sentIds, pre>>

RecvTimeout ==
    /\ RecvTimeoutBody
    /\ UNCHANGED sideVars

\* recvfrom raises another socket.error: connect(), then return None.
RecvErrorBody ==
    /\ pc = "recv"
    /\ \E result \in {"ok", "timeout", "error"}, sent \in BOOLEAN :
          connect(result, sent, call, depth + 1)
    /\ ending' = IF depth = 0 THEN "lost" ELSE ending
    /\ answer' = <<>>
    /\ NoRead
    /\ UNCHANGED <<on_notify, on_error, call, pre, notifSeen, okSeen, applied, saved,
                   byteVars>>

RecvError ==
    /\ RecvErrorBody
    /\ UNCHANGED sideVars

\* The caller assigns on_notify / on_error (a callable, or None again).
SetOnNotify ==
    /\ pc = "idle"
    /\ on_notify' = ~on_notify
    /\ NoRead
    /\ UNCHANGED <<stateVars, on_error, current_message_id, sock, pc, call, msg,
                   depth, sentIds, pre, notifSeen, okSeen, answer, applied, saved, ending, ret,
                   byteVars, sideVars>>

SetOnError ==
    /\ pc = "idle"
    /\ on_error' = ~on_error
    /\ NoRead
    /\ UNCHANGED <<stateVars, on_notify, current_message_id, sock, pc, call, msg,
                   depth, sentIds, pre, notifSeen, okSeen, answer, applied, saved, ending, ret,
                   byteVars, sideVars>>

\* The session with no observer registered.
Next ==
    \/ Construct
    \/ \E c \in Commands : Command(c)
    \/ \E messages \in Batches(msg) : Recv(messages)
    \/ RecvTimeout
    \/ RecvError

Spec == Init /\ [][Next]_vars

\* The session with observers and with each read observed.
NextRead ==
    \/ Construct
    \/ SetOnNotify
    \/ SetOnError
    \/ \E c \in Commands : ObservedCommand(c)
    \/ \E messages \in Batches(msg) : ObservedRecv(messages)
    \/ RecvTimeout
    \/ RecvError

SpecRead == Init /\ [][NextRead]_vars

\* recvfrom returns the next n bytes of the stream.
ByteRead(n) ==
    /\ wire # <<>>
    /\ LET messages == Segments(SubSeq(wire, 1, n))
       IN  /\ ObserveRead(messages)
           /\ got' = got \o SubSeq(messages, 1, nDone')
    /\ wire' = SubSeq(wire, n + 1, Len(wire))
    /\ stream' = stream
    /\ UNCHANGED sideVars

\* A new session and a device that is going to send the bytes of stream.
InitBytes ==
    /\ NewSession
    /\ stream \in Streams
    /\ wire = stream
    /\ got = <<>>
    /\ NoHist /\ NoClock /\ NoDiscover /\ NoThread /\ NoSocket /\ NoOld

\* The session waiting for the answer to its get_prop while the bytes of stream
\* arrive, cut into reads at any place.
NextBytes ==
    \/ Construct
    \/ \E n \in 1..Len(wire) : ByteRead(n)

SpecBytes == InitBytes /\ [][NextBytes]_vars

\* The session waiting for the answer to its get_prop while the device sends
\* one Notification frame per read.
NextNotify ==
    \/ Construct
    \/ \E ps \in AllNotifyParams : ObservedRecv(<<Notification(ps)>>)

SpecNotify == Init /\ [][NextNotify]_vars

\* The session with the connect() calls of each call counted and the ending of
\* the call before it recorded.
HistConstruct ==
    /\ ConstructBody
    /\ nConnects' = 1
    /\ prev' = NoPrev
    /\ UNCHANGED <<timeVars, discVars, threadVars, sockVars, oldVars>>

HistCommand(c) ==
    /\ pc = "idle"
    /\ current_message_id < MaxId
    /\ CommandBody(c)
    /\ nConnects' = 0
    /\ prev' = [op |-> call.op, ending |-> ending]
    /\ UNCHANGED <<timeVars, discVars, threadVars, sockVars, oldVars>>

HistRecvError ==
    /\ RecvErrorBody
    /\ nConnects' = nConnects + 1
    /\ prev' = prev
    /\ UNCHANGED <<timeVars, discVars, threadVars, sockVars, oldVars>>

NextHist ==
    \/ HistConstruct
    \/ \E c \in Commands : HistCommand(c)
    \/ \E messages \in Batches(msg) : Recv(messages)
    \/ RecvTimeout
    \/ HistRecvError

SpecHist == Init /\ [][NextHist]_vars

----------------------------------------------------------------------------
\* set_rgb called with each colour component at its ends and next to them.
RgbLevels == {0, 1, 254, 255}

RgbCommands ==
    {[op |-> "set_rgb", args |-> <<red, green, blue>>] :
        red \in RgbLevels, green \in RgbLevels, blue \in RgbLevels}

NextRgb ==
    \/ Construct
    \/ \E c \in RgbCommands : ObservedCommand(c)
    \/ \E messages \in Batches(msg) : ObservedRecv(messages)
    \/ RecvTimeout

SpecRgb == Init /\ [][NextRgb]_vars

----------------------------------------------------------------------------
\* The session with the time a recvfrom has been blocked, in seconds, and with
\* the peer's close: a connected socket of settimeout(SOCKET_TIMEOUT) returns
\* data or b'' when there is some, and raises socket.timeout after
\* SOCKET_TIMEOUT seconds without any.

SOCKET_TIMEOUT == 5

TimedConstruct ==
    /\ ConstructBody
    /\ idle' = 0
    /\ eof' = FALSE
    /\ UNCHANGED <<histVars, sockVars, oldVars, discVars, threadVars>>

TimedCommand(c) ==
    /\ pc = "idle"
    /\ current_message_id <= MaxReadId
    /\ CommandBody(c)
    /\ idle' = 0
    /\ eof' = FALSE
    /\ UNCHANGED <<histVars, sockVars, oldVars, discVars, threadVars>>

\* A second passes with the caller blocked in recvfrom.
Tick ==
    /\ pc = "recv"
    /\ ~eof
    /\ idle < SOCKET_TIMEOUT
    /\ idle' = idle + 1
    /\ NoRead
    /\ UNCHANGED <<stateVars, on_notify, on_error, current_message_id, sock, pc,
                   call, msg, depth, sentIds, pre, notifSeen, okSeen, answer, applied,
                   saved, ending, ret, byteVars, eof, histVars, sockVars, oldVars,
                   discVars, threadVars>>

\* Data arrives before the timeout; a recvfrom made after it starts its own wait.
TimedRecv(messages) ==
    /\ ~eof
    /\ idle < SOCKET_TIMEOUT
    /\ RecvBody(messages)
    /\ NoRead
    /\ idle' = 0
    /\ UNCHANGED <<byteVars, eof, histVars, sockVars, oldVars, discVars, threadVars>>

\* recvfrom returns b'', as it does at once, and from then on, after the peer
\* closed the connection: split gives [''], the for loop finds no message and
\* the while loop calls recvfrom again.
EmptyRead ==
    /\ RecvBody(<<>>)
    /\ NoRead
    /\ eof' = TRUE
    /\ idle' = 0
    /\ UNCHANGED <<byteVars, histVars, sockVars, oldVars, discVars, threadVars>>

TimedTimeout ==
    /\ ~eof
    /\ idle = SOCKET_TIMEOUT
    /\ RecvTimeoutBody
    /\ idle' = 0
    /\ UNCHANGED <<eof, histVars, sockVars, oldVars, discVars, threadVars>>

TimedRecvError ==
    /\ ~eof
    /\ RecvErrorBody
    /\ idle' = 0
    /\ UNCHANGED <<eof, histVars, sockVars, oldVars, discVars, threadVars>>

NextTime ==
    \/ TimedConstruct
    \/ \E c \in Commands : TimedCommand(c)
    \/ Tick
    \/ \E messages \in Batches(msg) : TimedRecv(messages)
    \/ EmptyRead
    \/ TimedTimeout
    \/ TimedRecvError

\* Time passes, and a recvfrom blocked for SOCKET_TIMEOUT seconds times out.
SpecTime ==
    /\ Init
    /\ [][NextTime]_vars
    /\ WF_vars(Tick)
    /\ WF_vars(TimedTimeout)

----------------------------------------------------------------------------
\* Two caller threads on one session. LightBulb holds no lock, so a thread may
\* enter a command method while the other is blocked in recvfrom, and whichever
\* thread is in recvfrom when data arrives gets it. A thread's statements up to
\* its blocking recvfrom are taken as one step, and the network does not fail.

\* The response frames among the first n of messages that carry id.
AnswersTo(messages, n, id) ==
    {i \in 1..n : messages[i].kind \in {"result", "error"} /\ messages[i].id = id}

\* The calls the two threads make, and the reads either of them may get: one
\* frame, answering or not the msg of one of them.
ThreadCommands == {c \in Commands : c.op \in {"turn_off", "set_brightness"}}
ThreadReads == {<<f>> : f \in Frames(msg) \cup Frames(msg2)}

ThreadConstruct ==
    /\ ConstructBody
    /\ UNCHANGED <<histVars, sockVars, oldVars, timeVars, discVars, threadVars>>

\* The first thread calls a command method.
ThreadCommand(c) ==
    /\ pc = "idle"
    /\ current_message_id < MaxId
    /\ CommandBody(c)
    /\ UNCHANGED <<histVars, sockVars, oldVars, timeVars, discVars, threadVars>>

\* The second thread calls a command method on the constructed session.
OtherCommand(c) ==
    /\ pc2 = "idle"
    /\ pc = "idle" \/ (pc = "recv" /\ call.op # "init")
    /\ current_message_id < MaxId
    /\ current_message_id' = NextMessageId(current_message_id)
    /\ msg2' = CreateMessage(MethodOf(c), ParamsOf(c))
    /\ call2' = c
    /\ \E sent \in BOOLEAN :
          /\ sent => sock = "connected"
          /\ sentIds' = IF sent THEN Append(sentIds, msg2'.id) ELSE sentIds
          /\ pc2' = IF sent THEN "recv" ELSE "idle"
          /\ ret2' = IF sent THEN "none" ELSE "raise"
    /\ NoRead
    /\ UNCHANGED <<stateVars, on_notify, on_error, sock, pc, call, msg, depth, pre,
                   notifSeen, okSeen, answer, applied, saved, ending, ret, byteVars,
                   histVars, sockVars, oldVars, timeVars, discVars, taken>>

\* recvfrom returns data to the first thread.
ThreadRecv(messages) ==
    /\ RecvBody(messages)
    /\ NoRead
    /\ LET r == ForMessages(LoopStart(DeviceState), messages, msg.id)
       IN  taken' = (taken \/ (pc2 = "recv" /\ AnswersTo(messages, r.done, msg2.id) # {}))
    /\ UNCHANGED <<byteVars, histVars, sockVars, oldVars, timeVars, discVars,
                   pc2, call2, msg2, ret2>>

\* recvfrom returns data to the second thread: the same loop, run for msg2.
OtherRecv(messages) ==
    /\ pc2 = "recv"
    /\ LET r == ForMessages(LoopStart(DeviceState), messages, msg2.id)
       IN  /\ notifSeen' = (notifSeen \/ r.notif)
           /\ taken' = (taken \/ (pc = "recv" /\ AnswersTo(messages, r.done, msg.id) # {}))
           /\ CASE r.exit = "ValueError" ->
                     /\ SetState(r.st)
                     /\ pc2' = "idle"
                     /\ ret2' = "raise"
                [] r.exit = "error" ->
                     /\ SetState(r.st)
                     /\ pc2' = "idle"
                     /\ ret2' = "None"
                [] r.exit = "run" /\ r.result # NoResult ->
                     /\ SetState(IF ResultOk(r.result) THEN Optimistic(call2, r.st)
                                 ELSE r.st)
                     /\ pc2' = "idle"
                     /\ ret2' = "None"
                [] OTHER ->
                     /\ SetState(r.st)
                     /\ UNCHANGED <<pc2, ret2>>
    /\ NoRead
    /\ UNCHANGED <<on_notify, on_error, current_message_id, sock, pc, call, msg,
                   depth, sentIds, pre, okSeen, answer, applied, saved, ending, ret,
                   byteVars, histVars, sockVars, oldVars, timeVars, discVars, call2, msg2>>

ThreadTimeout ==
    /\ RecvTimeoutBody
    /\ UNCHANGED <<histVars, sockVars, oldVars, timeVars, discVars, threadVars>>

\* The recvfrom of the second thread raises socket.timeout.
OtherTimeout ==
    /\ pc2 = "recv"
    /\ pc2' = "idle"
    /\ ret2' = "None"
    /\ NoRead
    /\ UNCHANGED <<stateVars, on_notify, on_error, current_message_id, sock, pc,
                   call, msg, depth, sentIds, pre, notifSeen, okSeen, answer, applied,
                   saved, ending, ret, byteVars, histVars, sockVars, oldVars, timeVars, discVars,
                   call2, msg2, taken>>

InitThreads ==
    /\ NewSession
    /\ stream = <<>> /\ wire = <<>> /\ got = <<>>
    /\ NoHist /\ NoClock /\ NoDiscover /\ NoSocket /\ NoOld
    /\ pc2 = "idle" /\ call2 = InitCall /\ msg2 = NoMsg /\ ret2 = "none"
    /\ taken = FALSE

NextThreads ==
    \/ ThreadConstruct
    \/ \E c \in ThreadCommands : ThreadCommand(c)
    \/ \E c \in ThreadCommands : OtherCommand(c)
    \/ \E messages \in ThreadReads : ThreadRecv(messages)
    \/ \E messages \in ThreadReads : OtherRecv(messages)
    \/ ThreadTimeout
    \/ OtherTimeout

SpecThreads == InitThreads /\ [][NextThreads]_vars

----------------------------------------------------------------------------
\* discover and parse_search_response

\* search_timeout (default) and sock.settimeout(3), in seconds.
SearchTimeout == 20
DiscoverSocketTimeout == 3
\* Seconds a turn of the loop may take beyond the socket timeout.
MaxJitter == 1

LocationRow == "Location: yeelight://192.168.1.239:55443"
BareLocationRow == "Location: 192.168.1.239"
IdRow == "id: 0x0000000002dfb19a"
OkRow == "HTTP/1.1 200 OK"
NotifyRow == "NOTIFY * HTTP/1.1"

\* row.split(': ')
SplitHeader(row) ==
    CASE row = LocationRow -> <<"Location", "yeelight://192.168.1.239:55443">>
      [] row = BareLocationRow -> <<"Location", "192.168.1.239">>
      [] row = IdRow -> <<"id", "0x0000000002dfb19a">>
      [] OTHER -> <<row>>

\* header_name.lower()
Lower(name) == IF name = "Location" THEN "location" ELSE name

\* value.split("//")
SplitSlashes(value) ==
    IF value = "yeelight://192.168.1.239:55443"
    THEN <<"yeelight:", "192.168.1.239:55443">>
    ELSE <<value>>

\* The for loop over rows: headers[name.lower()] = value for the rows that split
\* in two.
RECURSIVE HeadersOf(_, _)
HeadersOf(headers, rows) ==
    IF rows = <<>> THEN headers
    ELSE LET splitted == SplitHeader(Head(rows))
             next == IF Len(splitted) = 2
                     THEN [n \in DOMAIN headers \cup {Lower(splitted[1])} |->
                              IF n = Lower(splitted[1]) THEN splitted[2] ELSE headers[n]]
                     ELSE headers
         IN  HeadersOf(next, Tail(rows))

\* parse_search_response of a datagram given as its rows (split on '\r\n').
parse_search_response(rows) ==
    IF rows[1] = OkRow THEN HeadersOf(<<>>, rows) ELSE <<>>

\* The datagrams the socket bound to the multicast port may receive: a full
\* search reply, replies lacking a header, one whose location has no "//", and
\* the advertisement a bulb multicasts on its own.
Replies ==
    { <<OkRow, LocationRow, IdRow, "">>,
      <<OkRow, IdRow, "">>,
      <<OkRow, LocationRow, "">>,
      <<OkRow, BareLocationRow, IdRow, "">>,
      <<NotifyRow, LocationRow, IdRow, "">> }

\* What the lines after parse_search_response do with its headers: the
\* exception they raise, or "device" when LightBulb(...) is called.
AfterParse(headers) ==
    IF "location" \notin DOMAIN headers THEN "KeyError"
    ELSE IF Len(SplitSlashes(headers["location"])) < 2 THEN "IndexError"
    ELSE IF "id" \notin DOMAIN headers THEN "KeyError"
    ELSE "device"

\* Mutant: the budget counts as spent after the first timeout.
BudgetSpent_Early(e) == e > 0

\* time.time() - started_searching >= search_timeout
BudgetSpent(e) == e >= SearchTimeout

\* What discover() gave its caller: new_device once __init__ returned, the
\* exception that left __init__ or the parsing, None, or "none" while it runs.
DiscoverResult ==
    IF dpc = "init"
    THEN (IF pc = "idle" THEN "device" ELSE IF pc = "gone" THEN "raise" ELSE "none")
    ELSE dret

\* finally: sock.close(), run however the try statement is left (how is what
\* discover() gives, "none" while it goes on).
Finally(how) == IF how # "none" THEN "closed" ELSE udp

\* sendto, then the blocking recvfrom.
ProbeAndWait ==
    /\ probes' = probes + 1
    /\ waits' = waits + 1
    /\ dpc' = "wait"
    /\ dret' = "none"

\* discover() is called: the socket is created, bound and set up,
\* started_searching, the first turn of the loop.
DiscoverStart ==
    /\ dpc = "start"
    /\ ProbeAndWait
    /\ udp' = "open"
    /\ UNCHANGED <<elapsed, reply>>
    /\ UNCHANGED <<stateVars, on_notify, on_error, current_message_id, sock, pc,
                   call, msg, depth, sentIds, pre, notifSeen, okSeen, answer, applied,
                   saved, ending, ret, readVars, byteVars, histVars, sockVars, oldVars, timeVars,
                   threadVars>>

\* recvfrom raises socket.timeout: return None when the budget is spent, else
\* the next turn of the loop.
DiscoverTimeout ==
    /\ dpc = "wait"
    /\ \E j \in 0..MaxJitter : elapsed' = elapsed + DiscoverSocketTimeout + j
    /\ IF BudgetSpent(elapsed')
       THEN /\ dret' = "None"
            /\ dpc' = "done"
            /\ UNCHANGED <<probes, waits>>
       ELSE ProbeAndWait
    /\ reply' = reply
    /\ udp' = Finally(DiscoverResult')
    /\ UNCHANGED <<stateVars, on_notify, on_error, current_message_id, sock, pc,
                   call, msg, depth, sentIds, pre, notifSeen, okSeen, answer, applied,
                   saved, ending, ret, readVars, byteVars, histVars, sockVars, oldVars, timeVars,
                   threadVars>>

\* recvfrom returns a datagram: parse it, take ip and id from its headers and
\* construct the LightBulb, whose __init__ connects.
DiscoverReply(rows) ==
    /\ dpc = "wait"
    /\ reply' = rows
    /\ LET out == AfterParse(parse_search_response(rows))
       IN  IF out = "device"
           THEN /\ ConstructBody
                /\ dpc' = "init"
                /\ dret' = "none"
           ELSE /\ dpc' = "done"
                /\ dret' = out
                /\ UNCHANGED <<stateVars, on_notify, on_error, current_message_id,
                               sock, pc, call, msg, depth, sentIds, pre, notifSeen,
                               okSeen, answer, applied, saved, ending, ret, readVars,
                               byteVars>>
    /\ udp' = Finally(DiscoverResult')
    /\ UNCHANGED <<elapsed, probes, waits, histVars, sockVars, oldVars, timeVars,
                   threadVars>>

\* The steps of the __init__ that discover() called; when it returns or raises,
\* discover() ends.
DiscoverRecv(messages) ==
    /\ RecvBody(messages)
    /\ NoRead
    /\ UNCHANGED <<dpc, elapsed, probes, waits, reply, dret, byteVars, histVars,
                   sockVars, oldVars, timeVars, threadVars>>
    /\ udp' = Finally(DiscoverResult')

DiscoverRecvTimeout ==
    /\ RecvTimeoutBody
    /\ UNCHANGED <<dpc, elapsed, probes, waits, reply, dret, histVars, sockVars,
                   oldVars, timeVars, threadVars>>
    /\ udp' = Finally(DiscoverResult')

DiscoverRecvError ==
    /\ RecvErrorBody
    /\ UNCHANGED <<dpc, elapsed, probes, waits, reply, dret, histVars, sockVars,
                   oldVars, timeVars, threadVars>>
    /\ udp' = Finally(DiscoverResult')

\* sock.bind or sock.setsockopt raises: the lines before the try statement.
DiscoverSetupFails ==
    /\ dpc = "start"
    /\ dpc' = "done"
    /\ dret' = "OSError"
    /\ udp' = "open"
    /\ UNCHANGED <<elapsed, probes, waits, reply>>
    /\ UNCHANGED <<stateVars, on_notify, on_error, current_message_id, sock, pc,
                   call, msg, depth, sentIds, pre, notifSeen, okSeen, answer, applied,
                   saved, ending, ret, readVars, byteVars, histVars, sockVars, oldVars,
                   timeVars, threadVars>>

InitDiscover ==
    /\ NewSession
    /\ stream = <<>> /\ wire = <<>> /\ got = <<>>
    /\ NoHist /\ NoClock /\ NoThread /\ NoSocket /\ NoOld
    /\ dpc = "start" /\ elapsed = 0 /\ probes = 0 /\ waits = 0
    /\ reply = <<>> /\ dret = "none" /\ udp = "none"

\* discover() and the __init__ of the session it constructs.
NextDiscover ==
    \/ DiscoverStart
    \/ DiscoverTimeout
    \/ \E rows \in Replies : DiscoverReply(rows)
    \/ \E messages \in Batches(msg) : DiscoverRecv(messages)
    \/ DiscoverRecvTimeout
    \/ DiscoverRecvError

\* A blocked recvfrom of discover() returns: with no datagram, its timeout fires.
SpecDiscover ==
    /\ InitDiscover
    /\ [][NextDiscover]_vars
    /\ WF_vars(DiscoverStart)
    /\ WF_vars(DiscoverTimeout)

\* The same with the socket set-up failing or not.
NextUdp ==
    \/ DiscoverStart
    \/ DiscoverSetupFails
    \/ DiscoverTimeout
    \/ \E rows \in Replies : DiscoverReply(rows)
    \/ \E messages \in Batches(msg) : DiscoverRecv(messages)
    \/ DiscoverRecvTimeout
    \/ DiscoverRecvError

SpecUdp == InitDiscover /\ [][NextUdp]_vars

----------------------------------------------------------------------------
\* The TCP sockets of the session. connect() binds self.__sock to a new socket
\* and no method of LightBulb calls close() on a TCP socket: the socket
\* self.__sock was bound to before is unreachable from then on, and it is
\* closed when the runtime finalises it - at the rebinding where objects are
\* reference-counted, at some later collection otherwise.

SockConstruct ==
    /\ ConstructBody
    /\ nOpen' = 1
    /\ UNCHANGED <<histVars, timeVars, discVars, threadVars, oldVars>>

\* The connect() of the handler at 'except socket.error'.
SockRecvError ==
    /\ RecvErrorBody
    /\ \E finalised \in BOOLEAN : nOpen' = IF finalised THEN 1 ELSE nOpen + 1
    /\ UNCHANGED <<histVars, timeVars, discVars, threadVars, oldVars>>

\* The runtime finalises the sockets that are unreachable.
Collect ==
    /\ nOpen > 1
    /\ nOpen' = 1
    /\ UNCHANGED <<stateVars, on_notify, on_error, current_message_id, sock, pc,
                   call, msg, depth, sentIds, pre, notifSeen, okSeen, answer, applied,
                   saved, ending, ret, readVars, byteVars, histVars, timeVars,
                   discVars, threadVars, oldVars>>

NextSock ==
    \/ SockConstruct
    \/ \E c \in Commands : Command(c)
    \/ \E messages \in Batches(msg) : Recv(messages)
    \/ RecvTimeout
    \/ SockRecvError
    \/ Collect

SpecSock == Init /\ [][NextSock]_vars

----------------------------------------------------------------------------
\* The revision src/yeelight_controller/__init__.py: connect() is made by
\* __init__ only, __send_message makes one recvfrom and stores a Result frame
\* through __save_props when its id is 1, the command methods update no field,
\* and only socket.timeout is caught. Several sessions are created in one
\* process and draw their ids from LightBulb.current_message_id.

\* Sessions created in one process.
MaxSessions == 2

\* The keyword defaults of __init__.
OldInitialState ==
    [power |-> None, brightness |-> None, color_mode |-> None,
     color_temperature |-> None, rgb |-> None, hue |-> None, saturation |-> None]

\* The fields in the order __save_props assigns them result[0..6].
SavedFields ==
    <<"power", "brightness", "color_temperature", "color_mode", "rgb", "hue",
      "saturation">>

\* __save_props: the values as received; a result list shorter than seven
\* raises IndexError after the assignments it had values for.
save_props(st, result) ==
    [f \in DOMAIN st |->
        LET i == CHOOSE k \in DOMAIN SavedFields : SavedFields[k] = f
        IN  IF i <= Len(result) THEN result[i] ELSE st[f]]

\* One iteration of the loop of __process_notification_message: 'bright' is
\* stored as received.
OldSetProp(st, prop, value) ==
    IF prop = "power" THEN [st EXCEPT !.power = value]
    ELSE IF prop = "bright" THEN [st EXCEPT !.brightness = value]
    ELSE IF prop = "color_mode" THEN [st EXCEPT !.color_mode = ToInt(value)]
    ELSE IF prop = "ct" THEN [st EXCEPT !.color_temperature = ToInt(value)]
    ELSE IF prop = "rbg" THEN [st EXCEPT !.rgb = ToInt(value)]
    ELSE IF prop = "hue" THEN [st EXCEPT !.hue = ToInt(value)]
    ELSE IF prop = "sat" THEN [st EXCEPT !.saturation = ToInt(value)]
    ELSE st

RECURSIVE OldProcessNotification(_, _)
OldProcessNotification(st, params) ==
    IF params = <<>> THEN st
    ELSE OldProcessNotification(OldSetProp(st, Head(params)[1], Head(params)[2]),
                                Tail(params))

\* 'result' in message_json and message_json['id'] == 1
StoresResult(m, id) == m.id = 1

\* One iteration of the for loop of __send_message (id is the id of the request
\* sent): json.loads, then the 'error' / 'method' / 'result' branches. got is
\* the result list of the Result frame with the request's id, once the loop
\* came to it.
OldSegment(acc, m, id) ==
    IF m.kind = "malformed" THEN [acc EXCEPT !.exit = "ValueError"]
    ELSE IF m.kind = "error" THEN acc
    ELSE IF m.kind = "notify" THEN
        [acc EXCEPT !.st = OldProcessNotification(@, m.params), !.notif = TRUE]
    ELSE IF m.kind = "result" THEN
        [acc EXCEPT !.st = IF StoresResult(m, id) THEN save_props(@, m.payload) ELSE @,
                    !.exit = IF StoresResult(m, id) /\ Len(m.payload) < Len(SavedFields)
                             THEN "IndexError" ELSE @,
                    !.got = IF m.id = id THEN m.payload ELSE @]
    ELSE acc

RECURSIVE OldForMessages(_, _, _)
OldForMessages(acc, messages, id) ==
    IF messages = <<>> \/ acc.exit # "run" THEN acc
    ELSE OldForMessages(OldSegment(acc, Head(messages), id), Tail(messages), id)

\* What the model keeps of a session that was constructed.
OldSession ==
    [pc |-> "new", st |-> OldInitialState, sock |-> "none", msg |-> NoMsg,
     op |-> "init", ret |-> "none", got |-> <<>>, notif |-> FALSE]

\* One caller thread: no call is in progress.
OldIdle == \A s \in DOMAIN old : old[s].pc # "recv"

\* The variables of the other revision.
OldRest ==
    UNCHANGED <<stateVars, on_notify, on_error, sock, pc, call, msg, depth, sentIds,
                pre, notifSeen, okSeen, answer, applied, saved, ending, ret,
                readVars, byteVars, histVars, timeVars, discVars, threadVars,
                sockVars>>

\* An exception leaves the call of session r.
OldRaises(r) ==
    [r EXCEPT !.pc = IF r.op = "init" THEN "gone" ELSE "idle", !.ret = "raise"]

\* LightBulb(ip): __init__, connect(), __get_props up to the recvfrom.
OldConstruct ==
    /\ Len(old) < MaxSessions
    /\ OldIdle
    /\ \E result \in {"ok", "timeout", "error"}, sent \in BOOLEAN :
          \/ /\ result = "ok"
             /\ current_message_id < MaxId
             /\ current_message_id' = NextMessageId(current_message_id)
             /\ LET r == [OldSession EXCEPT
                            !.sock = "connected",
                            !.msg = CreateMessage("get_prop", ParamsOf(InitCall))]
                IN  old' = Append(old, IF sent THEN [r EXCEPT !.pc = "recv"]
                                               ELSE OldRaises(r))
          \/ /\ result = "timeout"
             /\ sent
             /\ current_message_id' = current_message_id
             /\ old' = Append(old, [OldSession EXCEPT !.sock = "unconnected",
                                                      !.pc = "idle", !.ret = "None"])
          \/ /\ result = "error"
             /\ sent
             /\ current_message_id' = current_message_id
             /\ old' = Append(old, OldRaises([OldSession EXCEPT !.sock = "unconnected"]))
    /\ OldRest

\* A command method of session s up to the recvfrom.
OldCommand(s, c) ==
    /\ OldIdle
    /\ old[s].pc = "idle"
    /\ current_message_id < MaxId
    /\ current_message_id' = NextMessageId(current_message_id)
    /\ \E sent \in BOOLEAN :
          /\ sent => old[s].sock = "connected"
          /\ LET r == [old[s] EXCEPT !.op = c.op, !.got = <<>>, !.notif = FALSE,
                                     !.msg = CreateMessage(MethodOf(c), ParamsOf(c))]
             IN  old' = [old EXCEPT ![s] = IF sent
                                           THEN [r EXCEPT !.pc = "recv", !.ret = "none"]
                                           ELSE OldRaises(r)]
    /\ OldRest

\* The one recvfrom of __send_message returns data.
OldRecv(s, messages) ==
    /\ old[s].pc = "recv"
    /\ LET r == OldForMessages([st |-> old[s].st, exit |-> "run", got |-> old[s].got,
                                notif |-> old[s].notif], messages, old[s].msg.id)
           t == [old[s] EXCEPT !.st = r.st, !.got = r.got, !.notif = r.notif]
       IN  old' = [old EXCEPT ![s] = IF r.exit = "run"
                                     THEN [t EXCEPT !.pc = "idle", !.ret = "None"]
                                     ELSE OldRaises(t)]
    /\ current_message_id' = current_message_id
    /\ OldRest

\* recvfrom raises socket.timeout: pass.
OldTimeout(s) ==
    /\ old[s].pc = "recv"
    /\ old' = [old EXCEPT ![s] = [@ EXCEPT !.pc = "idle", !.ret = "None"]]
    /\ current_message_id' = current_message_id
    /\ OldRest

\* recvfrom raises another socket.error, which nothing catches.
OldRecvError(s) ==
    /\ old[s].pc = "recv"
    /\ old' = [old EXCEPT ![s] = OldRaises(@)]
    /\ current_message_id' = current_message_id
    /\ OldRest

NextOld ==
    \/ OldConstruct
    \/ \E s \in DOMAIN old, c \in Commands : OldCommand(s, c)
    \/ \E s \in DOMAIN old : \E messages \in Batches(old[s].msg) : OldRecv(s, messages)
    \/ \E s \in DOMAIN old : OldTimeout(s)
    \/ \E s \in DOMAIN old : OldRecvError(s)

SpecOld == Init /\ [][NextOld]_vars

----------------------------------------------------------------------------
\* A command method has ended (returned or raised) and nothing was called since.
CommandEnded == pc = "idle" /\ call.op # "init"

\* C1: a command's optimistic update of its target field is applied only if the
\* loop received a Result frame with the command's id and "ok" first; and when
\* such a frame was received, the target field holds the requested value when
\* the method returns (toggle has no requested value: its flip is left out of
\* the second half).
C1_UpdateIffOkResult ==
    (CommandEnded /\ ret = "None") =>
        /\ applied => okSeen
        /\ (okSeen /\ call.op # "toggle") => DeviceState = Optimistic(call, DeviceState)

\* C2, as claimed: a command that ended in a receive timeout or a socket error
\* while receiving, with no Notification frame received during it, leaves every
\* DeviceState field as it was before the call.
C2_FailureLeavesState ==
    (CommandEnded /\ ending \in {"timeout", "lost"} /\ ~notifSeen) =>
        DeviceState = pre

\* C2, amended: ... as it was before the call, unless the __get_props of the
\* reconnect got its Result frame, and then the fields are what __get_props
\* stored from it.
C2_FailureLeavesStateOrProps ==
    (CommandEnded /\ ending \in {"timeout", "lost"} /\ ~notifSeen) =>
        /\ ~applied
        /\ DeviceState = IF saved = <<>> THEN pre ELSE SaveProps(pre, saved)
        /\ ending = "timeout" => saved = <<>>

C2_Witness ==
    /\ CommandEnded /\ ending = "lost" /\ ~notifSeen
    /\ saved # <<>> /\ DeviceState # pre

\* C3: a set_power command answered by an Error frame with the command's id
\* leaves power unchanged and reports a failure to its caller. A command method
\* returns None on success, so a failure the caller can tell from success is an
\* exception.
C3_ErrorFrameReported ==
    (CommandEnded /\ call.op \in {"turn_on", "turn_off"} /\ ending = "error"
        /\ ~notifSeen) =>
        /\ power = pre.power
        /\ ret = "raise"

\* C4: the ids of the frames written to the socket are strictly increasing, so
\* no id is sent twice.
C4_SentIdsIncrease ==
    \A i, j \in DOMAIN sentIds : i < j => sentIds[i] < sentIds[j]

\* Three frames were sent, the last one the get_prop of a reconnect.
C4_Witness ==
    /\ Len(sentIds) = 3
    /\ depth = 1 /\ msg.method = "get_prop" /\ call.op # "init"

\* C10: once connect() opened the stream and the loop received the Result frame
\* with the get_prop's id, the seven fields hold result positions 0..6 (power,
\* bright, ct, color_mode, rgb, hue, sat) when connect() returns.
C10_ConnectPopulates ==
    (pc = "idle" /\ ret = "None" /\ answer # <<>>) =>
        /\ power = answer[1]
        /\ brightness = ToInt(answer[2])
        /\ color_temperature = ToInt(answer[3])
        /\ color_mode = ToInt(answer[4])
        /\ rgb = ToInt(answer[5])
        /\ hue = ToInt(answer[6])
        /\ saturation = ToInt(answer[7])

\* The read just made was one Notification frame.
OneNotification == Len(lastRead) = 1 /\ lastRead[1].kind = "notify"

\* The wire name of each DeviceState field, as the protocol gives it.
WireName ==
    [power |-> "power", brightness |-> "bright", color_temperature |-> "ct",
     color_mode |-> "color_mode", rgb |-> "rgb", hue |-> "hue", saturation |-> "sat"]

ParamNames(ps) == {ps[i][1] : i \in DOMAIN ps}

\* C5: a Notification frame changes only the fields whose wire names are in its
\* params: {bright: 42} sets brightness to 42 and nothing else, and params of
\* unknown names only leave every field as it was.
C5_OnlyNamedFieldsChange ==
    OneNotification =>
        /\ \A f \in DOMAIN WireName :
              WireName[f] \notin ParamNames(lastRead[1].params) =>
                  DeviceState[f] = before[f]
        /\ lastRead[1].params = << <<"bright", "42">> >> => brightness = 42

\* C6: for each of the seven wire names, a Notification frame carrying it with
\* value v sets the field of that name to v (the number v spells, for the
\* numeric fields).
C6_NamedFieldsSet ==
    OneNotification =>
        \A i \in DOMAIN lastRead[1].params :
            LET name == lastRead[1].params[i][1]
                v == lastRead[1].params[i][2]
            IN  /\ name = "power" => power = v
                /\ \A f \in DOMAIN WireName \ {"power"} :
                      name = WireName[f] => DeviceState[f] = ToInt(v)

\* C7: with on_notify registered, every Notification frame of a read gets one
\* on_notify call, whatever else the read holds.
C7_NotifyOncePerFrame ==
    on_notify => nNotifyCalls = CountKind(lastRead, "notify")

\* C8: however the stream is cut into reads, no read fails on a fragment, and
\* once the stream is read the loop has processed the frames that one read of
\* the whole stream gives.
C8_ChunkInvariance ==
    /\ ending # "ValueError"
    /\ (pc = "recv" /\ wire = <<>>) => got = Segments(stream)

\* C9: a read made for a command and holding a segment that is no JSON does not
\* make the command method fail, and the loop gets through the other segments
\* of the read (up to the return an Error frame makes).
C9_MalformedSkipped ==
    (call.op # "init" /\ CountKind(lastRead, "malformed") > 0) =>
        /\ ret # "raise"
        /\ CountKind(lastRead, "error") = 0 => nDone = Len(lastRead)

\* C11: one command invocation makes at most one connect() call, also when
\* the get_prop exchange of its reconnect gets a socket error in turn.
C11_AtMostOneReconnect ==
    call.op # "init" => nConnects <= 1

\* The headers discover() reads from a reply.
RequiredHeaders == {"location", "id"}

\* C12: a reply lacking a required header does not make discover() fail: the
\* probe is sent again and discover() waits for another reply.
C12_MissingHeaderRetried ==
    (reply # <<>> /\ ~(RequiredHeaders \subseteq DOMAIN parse_search_response(reply))) =>
        /\ dret \notin {"KeyError", "IndexError"}
        /\ dpc = "wait"

\* C13: every recvfrom of discover() follows a sendto of its own; a timeout
\* with the budget unspent sends the probe again and one with the budget spent
\* returns None; None is never returned with the budget unspent; and with no
\* reply ever arriving discover() returns None in the end.
C13_ProbeWaitBudget ==
    /\ [](probes = waits)
    /\ [](dret = "None" => elapsed >= SearchTimeout)
    /\ [][(dpc = "wait" /\ elapsed' # elapsed) =>
              IF elapsed' < SearchTimeout
              THEN dpc' = "wait" /\ probes' = probes + 1 /\ waits' = waits + 1
              ELSE dpc' = "done" /\ dret' = "None"]_vars
    /\ <>(reply # <<>> \/ dret = "None")

\* discover() gave up after several probes.
C13_Witness ==
    dret = "None" /\ dpc = "done" /\ probes > 1 /\ reply = <<>>

\* The read just made held only Result and Error frames whose id is not the id
\* the command waits for.
OnlyOtherIds ==
    /\ lastRead # <<>>
    /\ \A i \in DOMAIN lastRead :
          lastRead[i].kind \in {"result", "error"} /\ lastRead[i].id # msg.id

\* C14: Result and Error frames with another id than the awaited one are
\* discarded: the command is still waiting after them, no update was applied
\* and DeviceState is as it was before the read.
C14_OtherIdsDiscarded ==
    (call.op # "init" /\ depth = 0 /\ OnlyOtherIds) =>
        /\ pc = "recv"
        /\ ~applied
        /\ DeviceState = before

\* C15: the wait of a command for its answer on an open connection ends (the
\* command returns, or a socket error takes it to the reconnect), also when
\* frames that are not its answer keep arriving.
C15_CommandReturns ==
    []((call.op # "init" /\ pc = "recv" /\ depth = 0 /\ ~eof) =>
           <>(pc # "recv" \/ depth > 0 \/ eof))

\* C16: once a read returned no data because the peer closed the connection,
\* the command is not waiting any more.
C16_CloseEndsCommand ==
    (call.op # "init" /\ eof) => pc # "recv"

\* C17: with two caller threads, never are two sent requests both awaiting
\* their response, and no thread reads a response frame the other one awaits.
C17_OneInFlight ==
    /\ ~(pc = "recv" /\ call.op # "init" /\ pc2 = "recv")
    /\ ~taken

\* C18: a command issued after a command that ended in a timeout, an Error
\* frame or a socket error (its reconnect failed or not) does not end in an
\* exception. A write error met on a connected socket is left to C20.
C18_UsableAfterFailure ==
    (/\ CommandEnded
     /\ prev.op \notin {"none", "init"}
     /\ prev.ending \in {"timeout", "error", "lost"}
     /\ ~(ending = "senderror" /\ sock = "connected")) =>
        ret # "raise"

\* C19: set_rgb(red, green, blue) sends params [red*65536 + green*256 + blue,
\* effect, duration] (16711680, "smooth", 500 for 255, 0, 0), the packed value
\* is in 0..16777215, and once the loop received the Result frame with the
\* command's id and "ok", rgb is that packed value when the method returns.
C19_RgbPacked ==
    (call.op = "set_rgb" /\ msg.method = "set_rgb") =>
        LET packed == call.args[1] * 65536 + call.args[2] * 256 + call.args[3]
        IN  /\ msg.params = <<packed, "smooth", 500>>
            /\ packed \in 0..16777215
            /\ call.args = <<255, 0, 0>> => msg.params[1] = 16711680
            /\ (CommandEnded /\ ret = "None" /\ okSeen) => rgb = packed

\* C20: a socket error raised by the write of a command frame (here on the
\* socket of a session whose construction went well) is followed by one
\* connect() and the command does not end in the exception.
C20_WriteErrorReconnects ==
    (CommandEnded /\ ending = "senderror" /\ prev.ending = "result") =>
        /\ nConnects = 1
        /\ ret # "raise"

\* C21: when sock.connect fails in the connect() of __init__ (a timeout or any
\* other socket error), the failure is logged and connect() returns: no
\* exception leaves the constructor, no get_prop frame was sent and every field
\* is as __init__ assigned it.
C21_ConnectFailureLogged ==
    (call.op = "init" /\ ending \in {"connect_timeout", "connect_error"}) =>
        /\ ret = "None"
        /\ pc = "idle"
        /\ sentIds = <<>>
        /\ current_message_id = 0
        /\ DeviceState = InitialState

\* C22: in a read made while a command awaits its response, the Error frames
\* change no field (a read of Error frames only leaves every field as it was),
\* and each of them gets one on_error call if on_error is registered, none
\* otherwise.
C22_ErrorFrameObserved ==
    (call.op # "init" /\ msg.method # "get_prop" /\ lastRead # <<>>) =>
        /\ CountKind(lastRead, "error") = Len(lastRead) => DeviceState = before
        /\ nErrorCalls = IF on_error THEN CountKind(lastRead, "error") ELSE 0

\* C23: the session never has more than one TCP socket open: by the time
\* connect() has put a new socket into self.__sock, the one it replaces is
\* closed.
C23_OneOpenSocket ==
    nOpen <= 1

\* C24: a toggle called with power "on" whose __send_message returned the
\* Result frame with its id and "ok" ends with power "off", also when a
\* Notification frame with power "off" was processed during the call.
C24_ToggleFollowsDevice ==
    (CommandEnded /\ call.op = "toggle" /\ ending = "result" /\ okSeen
        /\ pre.power = "on") =>
        power = "off"

\* C25: in the revision __init__.py, every session whose constructor returned
\* after the loop came to the Result frame with the id of its get_prop (and to
\* no Notification frame) holds the seven values of that frame, the second
\* session of the process as well as the first.
C25_EverySessionStoresProps ==
    \A s \in DOMAIN old :
        (/\ old[s].op = "init" /\ old[s].pc = "idle" /\ old[s].ret = "None"
         /\ old[s].got # <<>> /\ ~old[s].notif) =>
            old[s].st = save_props(OldInitialState, old[s].got)

\* C26: whenever discover() has ended - it returned a device, it returned None,
\* or an exception left it - its UDP socket is closed.
C26_UdpSocketClosed ==
    DiscoverResult # "none" => udp = "closed"

====
